---- MODULE Spec2Model ----
(***************************************************************************)
(* Preston RPA: the element-resolution engine (PrestonRPAV3), the          *)
(* coordinate store and the workflow of PrestonRPAV2, the batch driver     *)
(* run_automation with the loop of main that polls its queue, the account  *)
(* code lookup and convert_to_coordinate_format.                           *)
(*                                                                         *)
(* Time is counted in tenths of a second: the poll delay of                *)
(* wait_until_visible (0.3 s) is 3 ticks, FORM_FILL_DELAY (0.5 s) is 5.    *)
(* Python values are tagged records: None, a raised fault, an ElementBox,  *)
(* a tuple, a list, a number, a mapping.                                   *)
(***************************************************************************)
EXTENDS Integers, Sequences, FiniteSets, TLC

VARIABLES
    coord_file,   \* V3: content of the file at self.coord_file
    coordinates,  \* V3: self.coordinates
    caps,         \* optional libraries that imported (pyautogui, pytesseract, cv2)
    pc,           \* position of the engine's single thread
    req,          \* arguments of the running click_element call
    strategies,   \* click_element's local list, as the kinds of its finders
    idx,          \* position of the for loop in strategies
    start,        \* wait_until_visible's local start
    now,          \* time.time()
    screen,       \* what each finder would see if it looked now
    clicks,       \* points pyautogui.click was called with, in order
    waits,        \* kinds for which wait_until_clickable was entered, in order
    invoked,      \* kinds whose finder has been invoked, in order of first invocation
    exhausted,    \* kinds whose wait ended in TimeoutError
    faulted,      \* kinds whose wait ended in another exception
    result,       \* how the call ended
    polls,        \* finder invocations of the current wait
    lastStart,    \* time the last finder invocation of the current wait began
    lastEnd,      \* time the last finder invocation of the current wait returned
    lastSeen,     \* screen value at the moment of the last finder invocation
    found,        \* what wait_until_visible returned: kind and box
    everAbsent,   \* kinds whose target was not on screen at some moment of the call
    usedFallback, \* the coordinate fallback clicked
    coordinate_file,  \* V2: self.coordinate_file, a path
    v2_coordinates,   \* V2: self.coordinates
    v2_pc,            \* V2: "new" before __init__, "ready" after
    files,            \* content of the file at each path
    lastOp,           \* the store operation that returned last, with what it returned
    lastSaved,        \* per path, the map _save_coordinates wrote there last
    ops,              \* store operations performed
    call,         \* a finder called on its own: its name and what it is given
    ret,          \* what that call returned
    fn_pc,        \* "called" until the finder returns, then "returned"
    batch,        \* run_automation: its argument data, a list of records
    run_pc,       \* position of run_automation's thread
    entry_idx,    \* idx of the for loop over the batch
    wf_step,      \* position of execute_real_workflow in its list of calls
    wf_outcome,   \* how the current execute_real_workflow ended
    wf_fault,     \* the exception the workflow's except clause caught
    ui,           \* what pyautogui did during the current execute_real_workflow
    saved,        \* idx of the records for which click_save clicked
    queue,        \* items put on progress_queue, in order
    lookups,      \* calls of lookup_account_codes so far, with what each returned
    loop_pc,      \* main: position of the loop that polls progress_queue
    alive,        \* thread.is_alive()
    taken,        \* number of items the loop has taken from progress_queue
    error_message, \* main's local error_message
    bar,          \* the value progress_placeholder shows
    st_error,     \* what st.error displayed
    st_success,   \* st.success("Automation finished") was called
    excel_data,   \* the argument of convert_to_coordinate_format
    conversions   \* what each call of it on excel_data returned, in order

engineVars == <<coord_file, coordinates, caps, pc, req, strategies, idx, start, now,
                screen, clicks, waits, invoked, exhausted, faulted, result, polls,
                lastStart, lastEnd, lastSeen, found, everAbsent, usedFallback>>

storeVars == <<coordinate_file, v2_coordinates, v2_pc, files, lastOp, lastSaved, ops>>

finderVars == <<call, ret, fn_pc>>

runVars == <<batch, run_pc, entry_idx, wf_step, wf_outcome, wf_fault, ui, saved, queue>>

lookupVars == <<lookups>>

loopVars == <<loop_pc, alive, taken, error_message, bar, st_error, st_success>>

convertVars == <<excel_data, conversions>>

vars == <<engineVars, storeVars, finderVars, runVars, lookupVars, loopVars, convertVars>>

\* What the steps of each part leave alone; run_automation constructs a
\* PrestonRPAV2 and so writes to the store.
nonEngineVars == <<storeVars, finderVars, runVars, lookupVars, loopVars, convertVars>>
nonStoreVars == <<engineVars, finderVars, runVars, lookupVars, loopVars, convertVars>>
nonFinderVars == <<engineVars, storeVars, runVars, lookupVars, loopVars, convertVars>>
nonRunVars == <<engineVars, finderVars, lookupVars, loopVars, convertVars>>
nonLookupVars == <<engineVars, storeVars, finderVars, runVars, loopVars, convertVars>>
nonLoopVars == <<engineVars, storeVars, finderVars, runVars, lookupVars, convertVars>>
nonConvertVars == <<engineVars, storeVars, finderVars, runVars, lookupVars, loopVars>>

----------------------------------------------------------------------------
(* Bounds of the model *)

MaxTimeout == 7
MaxFinderDur == 2
MaxOps == 2
MaxWords == 3
MaxRecords == 2
MaxLookups == 2
MaxItems == 2
MaxConversions == 2

(* Program constants, in ticks of 0.1 s *)

PollInterval == 3
FORM_FILL_DELAY == 5
WorkflowTimeout == 50

----------------------------------------------------------------------------
(* Python values *)

None == [tag |-> "None"]
Fault == [tag |-> "Fault"]
Tuple(s) == [tag |-> "tuple", items |-> s]
List(s) == [tag |-> "list", items |-> s]
Num(n) == [tag |-> "num", v |-> n]

Raise(e) == [tag |-> "raise", exc |-> e]
Map(f) == [tag |-> "map", entries |-> f]

\* An optional string argument: NoneStr stands for Python's None.
NoneStr == "<None>"

\* bool(s) of an optional string: None and "" are falsy.
Truthy(s) == s # NoneStr /\ s # ""

\* bool(box) in `if box:`: None is falsy, an ElementBox (a dataclass without
\* __bool__ or __len__) is truthy whatever its fields hold.
BoxTruthy(r) == r.tag = "Box"

ElementBox(l, t, w, h) == [tag |-> "Box", left |-> l, top |-> t, width |-> w, height |-> h]

\* center with the halving misplaced: (left + width) // 2
center_sum_halved(box) ==
    <<(box.left + box.width) \div 2, (box.top + box.height) \div 2>>

center(box) == <<box.left + (box.width \div 2), box.top + (box.height \div 2)>>

EmptyMap == [k \in {} |-> None]

default_coordinates ==
    [hesap_search |-> Tuple(<<290, 305>>),
     hesap_input |-> Tuple(<<1000, 497>>),
     account_item |-> Tuple(<<990, 532>>),
     tamam_button |-> Tuple(<<1163, 820>>),
     date_input |-> Tuple(<<197, 335>>),
     yenile_btn |-> Tuple(<<48, 399>>),
     yeni_btn |-> Tuple(<<223, 448>>),
     havale_alma |-> Tuple(<<955, 566>>),
     banka_input |-> Tuple(<<629, 277>>),
     cari_input |-> Tuple(<<629, 309>>),
     belge_tarih_field |-> Tuple(<<629, 442>>),
     valor_tarih_field |-> Tuple(<<873, 442>>),
     tutar_input |-> Tuple(<<629, 514>>),
     aciklama_input |-> Tuple(<<629, 538>>),
     kaydet_btn |-> Tuple(<<919, 589>>),
     kapat_btn |-> Tuple(<<840, 589>>)]

----------------------------------------------------------------------------
(* Files: a path holds no file, a file that cannot be read, or text in some *)
(* syntax that denotes a document.                                          *)

Missing == [kind |-> "missing"]
Unreadable == [kind |-> "unreadable"]
Text(syn, d) == [kind |-> "text", syntax |-> syn, doc |-> d]
Garbage == Text("garbage", None)

\* Path.read_text(encoding="utf-8")
read_text(file) ==
    CASE file.kind = "missing" -> Raise("FileNotFoundError")
      [] file.kind = "unreadable" -> Raise("OSError")
      [] OTHER -> file

\* json.loads: JSON text only (block-style YAML and garbage do not parse)
json_loads(text) ==
    IF text.syntax = "json" THEN text.doc ELSE Raise("JSONDecodeError")

\* tuple(v)
tuple(v) ==
    CASE v.tag \in {"list", "tuple"} -> Tuple(v.items)
      [] OTHER -> Raise("TypeError")

\* {k: tuple(v) for k, v in data.items()}
tuple_items(data) ==
    IF data.tag # "map" THEN Raise("AttributeError")
    ELSE IF \E k \in DOMAIN data.entries : tuple(data.entries[k]).tag = "raise"
         THEN Raise("TypeError")
         ELSE [k \in DOMAIN data.entries |-> tuple(data.entries[k])]

IsRaise(x) == "tag" \in DOMAIN x /\ x.tag = "raise"

\* PrestonRPAV3._load_coordinates: any exception yields the empty dict
_load_coordinates(file) ==
    LET text == read_text(file)
        data == IF IsRaise(text) THEN text ELSE json_loads(text)
        out == IF IsRaise(data) THEN data ELSE tuple_items(data)
    IN  IF IsRaise(out) THEN EmptyMap ELSE out

----------------------------------------------------------------------------
(* The V3 engine: what the screen can show and what a caller can ask for    *)

Kinds == {"text", "template"}
AllCaps == {"pyautogui", "pytesseract", "cv2"}

\* Boxes OCR can report for the word searched (the second has no area) and
\* the box of a template match.
TextBoxes == {ElementBox(10, 20, 5, 3), ElementBox(7, 7, 0, 4)}
TemplateBoxes == {ElementBox(100, 40, 8, 5)}

\* Per finder: the target is not on screen (None), capturing or matching
\* raises (Fault), or the target is on screen in some box.
Screens ==
    {[text |-> a, template |-> b] :
        a \in {None, Fault} \cup TextBoxes, b \in {None, Fault} \cup TemplateBoxes}

\* Files the engine can be constructed on: none, unparseable text, or a
\* coordinate file that places kaydet_btn elsewhere than the defaults do.
FileA == Text("json", Map([kaydet_btn |-> List(<<900, 600>>)]))
V3Files == {Missing, Garbage, FileA}

\* timeout is a float the caller chooses: negative, zero, short or long.
Timeouts == {-1, 0, 1, MaxTimeout}

\* Keyword arguments a caller may write; accessibility and selector are the
\* two locator fields of the specification that click_element does not have.
Requests ==
    [text : {NoneStr, "", "Kaydet"},
     template : {NoneStr, "save_button.png"},
     accessibility : {NoneStr, "Kaydet"},
     selector : {NoneStr, "#save"},
     coord_key : {NoneStr, "kaydet_btn", "no_such_key"},
     timeout : Timeouts]

\* The call execute_workflow makes.
WorkflowRequest ==
    [text |-> "Kaydet", template |-> "save_button.png", accessibility |-> NoneStr,
     selector |-> NoneStr, coord_key |-> "kaydet_btn", timeout |-> WorkflowTimeout]

NoRequest ==
    [text |-> NoneStr, template |-> NoneStr, accessibility |-> NoneStr,
     selector |-> NoneStr, coord_key |-> NoneStr, timeout |-> 0]

NotFound == [kind |-> "", box |-> None]

\* click_element is keyword-only with text, template, coord_key and timeout:
\* Python binds no other keyword.
Accepted(r) == r.accessibility = NoneStr /\ r.selector = NoneStr

\* the chain with the template strategy appended first
StrategyChain_template_first(r) ==
    (IF Truthy(r.template) THEN <<"template">> ELSE <<>>)
        \o (IF Truthy(r.text) THEN <<"text">> ELSE <<>>)

\* The list click_element builds before its loop.
StrategyChain(r) ==
    (IF Truthy(r.text) THEN <<"text">> ELSE <<>>)
        \o (IF Truthy(r.template) THEN <<"template">> ELSE <<>>)

\* find_element_by_text reusing the screenshot of the wait's previous poll
find_element_by_text_cached == IF polls = 0 THEN screen.text ELSE lastSeen

\* find_element_by_text without its guard: the call on the missing module raises
find_element_by_text_unguarded ==
    IF "pyautogui" \notin caps \/ "pytesseract" \notin caps THEN Fault
    ELSE screen.text

\* find_element_by_text on the current screen
find_element_by_text ==
    IF "pyautogui" \notin caps \/ "pytesseract" \notin caps THEN None
    ELSE screen.text

\* match_template on the current screen
match_template ==
    IF "pyautogui" \notin caps \/ "cv2" \notin caps THEN None
    ELSE screen.template

\* find_element_by_accessibility and find_element_by_selector: stubs
find_element_by_accessibility == None
find_element_by_selector == None

\* finder(): the lambda of the given kind
Finder(k) == IF k = "text" THEN find_element_by_text ELSE match_template

Present(scr) == {k \in Kinds : scr[k].tag = "Box"}

----------------------------------------------------------------------------
(* The V3 engine: steps                                                     *)

\* The engine before __init__, whatever libraries imported.
EngineFresh ==
    /\ coord_file \in V3Files
    /\ coordinates = EmptyMap
    /\ pc = "new"
    /\ req = NoRequest
    /\ strategies = <<>>
    /\ idx = 0
    /\ start = 0
    /\ now = 0
    /\ screen \in Screens
    /\ clicks = <<>>
    /\ waits = <<>>
    /\ invoked = <<>>
    /\ exhausted = {}
    /\ faulted = {}
    /\ result = "none"
    /\ polls = 0
    /\ lastStart = 0
    /\ lastEnd = 0
    /\ lastSeen = None
    /\ found = NotFound
    /\ everAbsent = {}
    /\ usedFallback = FALSE

InitEngine ==
    /\ caps = AllCaps
    /\ EngineFresh

\* Libraries that imported: all, or all but one.
CapSets == {AllCaps} \cup {AllCaps \ {c} : c \in AllCaps}

InitEngineCaps ==
    /\ caps \in CapSets
    /\ EngineFresh

\* PrestonRPAV3.__init__
Construct ==
    /\ pc = "new"
    /\ coordinates' = _load_coordinates(coord_file)
    /\ pc' = "idle"
    /\ UNCHANGED nonEngineVars
    /\ UNCHANGED <<coord_file, caps, req, strategies, idx, start, now, screen, clicks,
                   waits, invoked, exhausted, faulted, result, polls, lastStart,
                   lastEnd, lastSeen, found, everAbsent, usedFallback>>

\* Entry of click_element up to its for loop.
Enter(r) ==
    /\ pc = "idle"
    /\ req' = r
    /\ everAbsent' = Kinds \ Present(screen)
    /\ IF ~Accepted(r)
       THEN /\ result' = "TypeError"
            /\ pc' = "returned"
            /\ UNCHANGED <<strategies, idx>>
       ELSE IF "pyautogui" \notin caps
       THEN /\ result' = "RuntimeError: pyautogui is required for clicking"
            /\ pc' = "returned"
            /\ UNCHANGED <<strategies, idx>>
       ELSE /\ strategies' = StrategyChain(r)
            /\ idx' = 1
            /\ pc' = "for"
            /\ UNCHANGED result
    /\ UNCHANGED nonEngineVars
    /\ UNCHANGED <<coord_file, coordinates, caps, start, now, screen, clicks, waits,
                   invoked, exhausted, faulted, polls, lastStart, lastEnd, lastSeen,
                   found, usedFallback>>

\* click_element(**r)
click_element == \E r \in Requests : Enter(r)

\* execute_workflow: its one click_element call; the except clause re-raises.
execute_workflow == Enter(WorkflowRequest)

\* the loop with only its except TimeoutError clause
Handled_timeout_only(exc) == exc = "TimeoutError"

\* The except clauses of click_element's loop: TimeoutError, then Exception.
Handled(exc) == exc \in {"TimeoutError", "Exception"}

\* An exception leaves the wait of strategies[idx]: the loop continues with
\* the next strategy if a clause catches it, else it leaves click_element.
AfterException(exc) ==
    IF Handled(exc)
    THEN /\ idx' = idx + 1
         /\ pc' = "for"
         /\ UNCHANGED result
    ELSE /\ result' = exc
         /\ pc' = "returned"
         /\ UNCHANGED idx

\* for finder in strategies: the next wait_until_clickable, or the end of the loop
ForNext ==
    /\ pc = "for"
    /\ IF idx <= Len(strategies)
       THEN /\ start' = now
            /\ polls' = 0
            /\ waits' = Append(waits, strategies[idx])
            /\ pc' = "while"
       ELSE /\ pc' = "fallback"
            /\ UNCHANGED <<start, polls, waits>>
    /\ UNCHANGED nonEngineVars
    /\ UNCHANGED <<coord_file, coordinates, caps, req, strategies, idx, now, screen,
                   clicks, invoked, exhausted, faulted, result, lastStart, lastEnd,
                   lastSeen, found, everAbsent, usedFallback>>

\* the loop test admitting a poll at the very moment the timeout is reached
WithinTimeout_inclusive == now - start <= req.timeout

\* the loop test measuring the budget from the entry of click_element
WithinTimeout_from_call_entry == now < req.timeout

\* time.time() - start < timeout
WithinTimeout == now - start < req.timeout

\* while time.time() - start < timeout; when it fails, TimeoutError
WhileTest ==
    /\ pc = "while"
    /\ IF WithinTimeout
       THEN /\ pc' = "poll"
            /\ UNCHANGED <<exhausted, idx, result>>
       ELSE /\ exhausted' = exhausted \cup {strategies[idx]}
            /\ AfterException("TimeoutError")
    /\ UNCHANGED nonEngineVars
    /\ UNCHANGED <<coord_file, coordinates, caps, req, strategies, start, now, screen,
                   clicks, waits, invoked, faulted, polls, lastStart, lastEnd,
                   lastSeen, found, everAbsent, usedFallback>>

\* The screen changes while the engine works. The engine looks at it only
\* when a finder is invoked, so a change at any other moment of the call is
\* the same change made just before the next invocation.
ScreenChange ==
    /\ pc = "poll"
    /\ \E s \in Screens \ {screen} :
        /\ screen' = s
        /\ everAbsent' = everAbsent \cup (Kinds \ Present(s))
    /\ UNCHANGED nonEngineVars
    /\ UNCHANGED <<coord_file, coordinates, caps, pc, req, strategies, idx, start, now,
                   clicks, waits, invoked, exhausted, faulted, result, polls, lastStart,
                   lastEnd, lastSeen, found, usedFallback>>

\* box = finder(); if box: return box. A fault raised by the finder leaves
\* wait_until_visible and wait_until_clickable.
Poll ==
    /\ pc = "poll"
    /\ LET k == strategies[idx]
           box == Finder(k)
       IN  /\ \E d \in 0..MaxFinderDur : /\ now' = now + d
                                          /\ lastEnd' = now + d
           /\ lastStart' = now
           /\ polls' = polls + 1
           /\ lastSeen' = screen[k]
           /\ invoked' = IF \E i \in 1..Len(invoked) : invoked[i] = k
                          THEN invoked ELSE Append(invoked, k)
           /\ IF box = Fault
              THEN /\ faulted' = faulted \cup {k}
                   /\ AfterException("Exception")
                   /\ UNCHANGED found
              ELSE IF BoxTruthy(box)
              THEN /\ found' = [kind |-> k, box |-> box]
                   /\ pc' = "found"
                   /\ UNCHANGED <<faulted, idx, result>>
              ELSE /\ pc' = "sleep"
                   /\ UNCHANGED <<faulted, idx, found, result>>
    /\ UNCHANGED nonEngineVars
    /\ UNCHANGED <<coord_file, coordinates, caps, req, strategies, start, screen, clicks,
                   waits, exhausted, everAbsent, usedFallback>>

\* time.sleep(0.3)
Sleep ==
    /\ pc = "sleep"
    /\ now' = now + PollInterval
    /\ pc' = "while"
    /\ UNCHANGED nonEngineVars
    /\ UNCHANGED <<coord_file, coordinates, caps, req, strategies, idx, start, screen,
                   clicks, waits, invoked, exhausted, faulted, result, polls, lastStart,
                   lastEnd, lastSeen, found, everAbsent, usedFallback>>

\* pyautogui.click(*box.center()); time.sleep(FORM_FILL_DELAY); return
ClickBox ==
    /\ pc = "found"
    /\ clicks' = Append(clicks, center(found.box))
    /\ now' = now + FORM_FILL_DELAY
    /\ result' = "ok"
    /\ pc' = "returned"
    /\ UNCHANGED nonEngineVars
    /\ UNCHANGED <<coord_file, coordinates, caps, req, strategies, idx, start, screen,
                   waits, invoked, exhausted, faulted, polls, lastStart, lastEnd,
                   lastSeen, found, everAbsent, usedFallback>>

\* if coord_key and coord_key in self.coordinates
HasFallback == Truthy(req.coord_key) /\ req.coord_key \in DOMAIN coordinates

\* the stored point unpacked as y, x
StoredPoint_swapped ==
    <<coordinates[req.coord_key].items[2], coordinates[req.coord_key].items[1]>>

\* x, y = self.coordinates[coord_key]
StoredPoint == coordinates[req.coord_key].items

\* click_element without its final raise
NoStrategyOutcome_silent == "ok"

\* How click_element ends when nothing could be clicked.
NoStrategyOutcome == "RuntimeError: No valid strategy could click the element"

\* The coordinate fallback, or the final raise
Fallback ==
    /\ pc = "fallback"
    /\ IF HasFallback
       THEN /\ clicks' = Append(clicks, StoredPoint)
            /\ now' = now + FORM_FILL_DELAY
            /\ usedFallback' = TRUE
            /\ result' = "ok"
       ELSE /\ result' = NoStrategyOutcome
            /\ UNCHANGED <<clicks, now, usedFallback>>
    /\ pc' = "returned"
    /\ UNCHANGED nonEngineVars
    /\ UNCHANGED <<coord_file, coordinates, caps, req, strategies, idx, start, screen,
                   waits, invoked, exhausted, faulted, polls, lastStart, lastEnd,
                   lastSeen, found, everAbsent>>

\* The steps of the thread inside click_element.
ThreadStep ==
    \/ ForNext
    \/ WhileTest
    \/ Poll
    \/ Sleep
    \/ ClickBox
    \/ Fallback

\* The engine's steps after a call has been entered.
EngineStep ==
    \/ ForNext
    \/ WhileTest
    \/ ScreenChange
    \/ Poll
    \/ Sleep
    \/ ClickBox
    \/ Fallback

----------------------------------------------------------------------------
(* The V2 coordinate store                                                  *)

JsonPath == "coordinates.json"
YamlPath == "calib.yaml"
Paths == {JsonPath, YamlPath}

\* Path.suffix
Suffix(path) == IF path = YamlPath THEN ".yaml" ELSE ".json"

\* Coordinate maps a caller saves: every map from some of these keys to
\* these points.
StoreKeys == {"kaydet_btn", "yeni_btn"}
StorePoints == {Tuple(<<5, 5>>), Tuple(<<919, 589>>)}
StoreMaps == UNION {[ks -> StorePoints] : ks \in SUBSET StoreKeys}

\* Documents a coordinate file can hold besides a proper map: an entry of
\* three numbers, an entry that is a bare number, a list instead of a
\* mapping, and nothing at all (an empty YAML file).
ProperDoc == Map([kaydet_btn |-> List(<<5, 5>>)])
LongEntryDoc == Map([kaydet_btn |-> List(<<919, 589, 3>>)])
NumEntryDoc == Map([kaydet_btn |-> Num(5)])
ListDoc == List(<<>>)

V2Files ==
    {Missing, Unreadable, Garbage, Text("yaml", None)}
        \cup {Text(syn, d) : syn \in {"json", "yaml"},
                             d \in {ProperDoc, LongEntryDoc, NumEntryDoc, ListDoc}}

\* What the two paths hold when the store is constructed: any file at one of
\* them, no file or a proper one at the other.
InitialFiles ==
    {fs \in [Paths -> V2Files] :
        \E p \in Paths : fs[p] \in {Missing, Text("json", ProperDoc)}}

\* Keys calibrated and pointer positions captured.
CalibKeys == {"kaydet_btn", "new_key"}
PointerPositions == {<<7, 9>>}

\* yaml.safe_load: YAML text, of which JSON text is the flow style
yaml_safe_load(text) ==
    IF text.syntax \in {"json", "yaml"} THEN text.doc ELSE Raise("YAMLError")

\* bool(doc) in `yaml.safe_load(...) or {}`
DocTruthy(d) ==
    CASE d.tag = "None" -> FALSE
      [] d.tag = "map" -> DOMAIN d.entries # {}
      [] d.tag \in {"list", "tuple"} -> d.items # <<>>
      [] d.tag = "num" -> d.v # 0
      [] OTHER -> TRUE

\* load_coordinates without its YAML branch
parse_by_suffix_json_only(text, path) == json_loads(text)

\* The try block of load_coordinates: the parsed data by the path's suffix
parse_by_suffix(text, path) ==
    IF Suffix(path) \in {".yaml", ".yml"}
    THEN LET d == yaml_safe_load(text)
         IN  IF IsRaise(d) THEN d ELSE IF DocTruthy(d) THEN d ELSE Map(EmptyMap)
    ELSE json_loads(text)

\* PrestonRPAV2.load_coordinates on the file found at coord_path: both except
\* clauses return default_coordinates()
load_coordinates(file, path) ==
    LET text == read_text(file)
        data == IF IsRaise(text) THEN text ELSE parse_by_suffix(text, path)
        out == IF IsRaise(data) THEN data ELSE tuple_items(data)
    IN  IF IsRaise(out) THEN default_coordinates ELSE out

\* list(v)
list(v) == List(v.items)

\* PrestonRPAV2._save_coordinates: the text written to coord_path
_save_coordinates(coords, path) ==
    LET serializable == [k \in DOMAIN coords |-> list(coords[k])]
    IN  Text(IF Suffix(path) \in {".yaml", ".yml"} THEN "yaml" ELSE "json",
             Map(serializable))

\* coord_path = Path(path) if path else self.coordinate_file
coord_path(arg) == IF Truthy(arg) THEN arg ELSE coordinate_file

\* coord_path.exists()
exists(file) == file.kind # "missing"

\* calibrate_coordinate: the map it starts from
calibration_base(path) ==
    IF exists(files[path]) THEN load_coordinates(files[path], path)
    ELSE default_coordinates

\* coords[key] = value
SetItem(coords, key, value) ==
    [k \in DOMAIN coords \cup {key} |-> IF k = key THEN value ELSE coords[k]]

NoOp ==
    [op |-> "none", path |-> "", arg |-> "", key |-> "", pos |-> <<>>,
     before |-> EmptyMap, ret |-> EmptyMap]
NoSave == [saved |-> FALSE, map |-> EmptyMap]

InitStore ==
    /\ coordinate_file = JsonPath
    /\ v2_coordinates = EmptyMap
    /\ v2_pc = "new"
    /\ files \in InitialFiles
    /\ lastOp = NoOp
    /\ lastSaved = [p \in Paths |-> NoSave]
    /\ ops = 0

\* PrestonRPAV2.__init__(coord_file)
ConstructV2 ==
    /\ v2_pc = "new"
    /\ \E p \in Paths :
        /\ coordinate_file' = p
        /\ v2_coordinates' = load_coordinates(files[p], p)
    /\ v2_pc' = "ready"
    /\ UNCHANGED <<files, lastOp, lastSaved, ops>>
    /\ UNCHANGED nonStoreVars

\* load_coordinates(path), called on its own
Load ==
    /\ v2_pc = "ready"
    /\ ops < MaxOps
    /\ \E arg \in Paths \cup {NoneStr} :
        LET p == coord_path(arg)
        IN  lastOp' = [op |-> "load", path |-> p, arg |-> arg, key |-> "", pos |-> <<>>,
                       before |-> v2_coordinates,
                       ret |-> load_coordinates(files[p], p)]
    /\ ops' = ops + 1
    /\ UNCHANGED <<coordinate_file, v2_coordinates, v2_pc, files, lastSaved>>
    /\ UNCHANGED nonStoreVars

\* _save_coordinates(coords, path), called on its own
Save ==
    /\ v2_pc = "ready"
    /\ ops < MaxOps
    /\ \E arg \in Paths \cup {NoneStr}, m \in StoreMaps :
        LET p == coord_path(arg)
        IN  /\ files' = [files EXCEPT ![p] = _save_coordinates(m, p)]
            /\ lastSaved' = [lastSaved EXCEPT ![p] = [saved |-> TRUE, map |-> m]]
            /\ lastOp' = [op |-> "save", path |-> p, arg |-> arg, key |-> "", pos |-> <<>>,
                          before |-> v2_coordinates, ret |-> m]
    /\ ops' = ops + 1
    /\ UNCHANGED <<coordinate_file, v2_coordinates, v2_pc>>
    /\ UNCHANGED nonStoreVars

\* calibrate_coordinate(key, path) once the operator has pressed Enter
calibrate_coordinate ==
    /\ v2_pc = "ready"
    /\ ops < MaxOps
    /\ \E key \in CalibKeys, arg \in Paths \cup {NoneStr}, pos \in PointerPositions :
        LET p == coord_path(arg)
            coords == SetItem(calibration_base(p), key, Tuple(pos))
        IN  /\ files' = [files EXCEPT ![p] = _save_coordinates(coords, p)]
            /\ lastSaved' = [lastSaved EXCEPT ![p] = [saved |-> TRUE, map |-> coords]]
            /\ v2_coordinates' = coords
            /\ lastOp' = [op |-> "calibrate", path |-> p, arg |-> arg, key |-> key,
                          pos |-> pos, before |-> v2_coordinates, ret |-> coords]
    /\ ops' = ops + 1
    /\ UNCHANGED <<coordinate_file, v2_pc>>
    /\ UNCHANGED nonStoreVars

----------------------------------------------------------------------------
(* The finders as functions of what the screen capture holds                *)

\* Text is a sequence of characters; these are the characters of the model.
Whitespace == {" ", "\t"}

\* str.lower, character by character
LowerChar(c) ==
    CASE c = "K" -> "k"
      [] c = "A" -> "a"
      [] OTHER -> c

\* str.lower left out: the comparison becomes case-sensitive
lower_identity(w) == w

\* str.lower
lower(w) == [i \in 1..Len(w) |-> LowerChar(w[i])]

RECURSIVE lstrip(_)
lstrip(w) == IF w # <<>> /\ Head(w) \in Whitespace THEN lstrip(Tail(w)) ELSE w

RECURSIVE rstrip(_)
rstrip(w) ==
    IF w # <<>> /\ w[Len(w)] \in Whitespace THEN rstrip(SubSeq(w, 1, Len(w) - 1)) ELSE w

\* str.strip
strip(w) == rstrip(lstrip(w))

\* Words pytesseract can report: nothing, the word in several spellings, the
\* word with an inner blank, other words.
OcrWords ==
    {<<>>,
     <<"k", "a">>,
     <<"K", "A">>,
     <<" ", "K", "a", " ">>,
     <<"\t", "k", "A">>,
     <<"k", " ", "a">>,
     <<"a", "k">>}

\* Strings a caller searches for.
Targets == {<<"K", "a">>, <<"k", "a">>, <<"K", "A">>, <<" ", "K", "a">>, <<>>}

\* pytesseract.image_to_data(..., Output.DICT) for a scan that reports the
\* words ws in this order: parallel lists, here one record per word.
image_to_data(ws) ==
    [i \in 1..Len(ws) |->
        [text |-> ws[i], left |-> 10 * i, top |-> 20 + i, width |-> 4 + Len(ws[i]),
         height |-> 2]]

\* The loop of find_element_by_text from word i on: the box of the first
\* word that compares equal, None when the words run out.
RECURSIVE first_word_box(_, _, _)
first_word_box(data, text, i) ==
    IF i > Len(data) THEN None
    ELSE IF lower(strip(data[i].text)) = lower(text)
    THEN ElementBox(data[i].left, data[i].top, data[i].width, data[i].height)
    ELSE first_word_box(data, text, i + 1)

\* Correlation scores in hundredths; confidence defaults to 0.8.
MaxScore == 100
DefaultConfidence == 80
Scores == 0..MaxScore
Confidences == {DefaultConfidence, 50, MaxScore}

\* template.shape of the image cv2.imread returns, None when it cannot be read
TemplateShapes == {None, [tag |-> "shape", h |-> 5, w |-> 8], [tag |-> "shape", h |-> 3, w |-> 3]}
MatchLocations == {<<100, 40>>, <<0, 0>>}

\* the threshold test accepting only scores above the confidence
Accepts_strictly_above(max_val, confidence) == max_val > confidence

\* max_val >= confidence
Accepts(max_val, confidence) == max_val >= confidence

\* match_template after the screenshot: template is what cv2.imread gave,
\* max_val and max_loc what cv2.minMaxLoc gave.
template_box(template, max_val, max_loc, confidence) ==
    IF template = None THEN None
    ELSE IF Accepts(max_val, confidence)
    THEN ElementBox(max_loc[1], max_loc[2], template.w, template.h)
    ELSE None

NoCall == [fn |-> "none"]

TextCalls ==
    {[fn |-> "find_element_by_text", words |-> ws, text |-> t] :
        ws \in UNION {[1..n -> OcrWords] : n \in 0..MaxWords}, t \in Targets}

TemplateCalls ==
    {[fn |-> "match_template", template |-> tp, max_val |-> v, max_loc |-> loc,
      confidence |-> c] :
        tp \in TemplateShapes, v \in Scores, loc \in MatchLocations, c \in Confidences}

\* A finder has been called on its own.
InitFinders ==
    /\ call \in TextCalls \cup TemplateCalls
    /\ ret = None
    /\ fn_pc = "called"

\* find_element_by_text(text) runs to its return
FindElementByText ==
    /\ fn_pc = "called"
    /\ call.fn = "find_element_by_text"
    /\ ret' = IF "pyautogui" \notin caps \/ "pytesseract" \notin caps THEN None
              ELSE first_word_box(image_to_data(call.words), call.text, 1)
    /\ fn_pc' = "returned"
    /\ UNCHANGED call
    /\ UNCHANGED nonFinderVars

\* match_template(template_path, confidence) runs to its return
MatchTemplate ==
    /\ fn_pc = "called"
    /\ call.fn = "match_template"
    /\ ret' = IF "pyautogui" \notin caps \/ "cv2" \notin caps THEN None
              ELSE template_box(call.template, call.max_val, call.max_loc, call.confidence)
    /\ fn_pc' = "returned"
    /\ UNCHANGED call
    /\ UNCHANGED nonFinderVars

----------------------------------------------------------------------------
(* The V2 workflow: execute_real_workflow as the list of its pyautogui and  *)
(* sleep calls, in program order                                            *)

Press(k) == [op |-> "press", key |-> k, dur |-> 0, part |-> "alerts"]
Hotkey(k) == [op |-> "hotkey", key |-> k, dur |-> 0, part |-> "form"]
SleepFor(d, p) == [op |-> "sleep", key |-> "", dur |-> d, part |-> p]
ClickAt(k, p) == [op |-> "click", key |-> k, dur |-> 0, part |-> p]
Typewrite(f, p) == [op |-> "typewrite", key |-> f, dur |-> 0, part |-> p]
TypewriteGet(f, p) == [op |-> "typewrite_get", key |-> f, dur |-> 0, part |-> p]

\* dismiss_alerts: its body runs inside try / except Exception: pass
AlertCalls ==
    <<Press("esc"), SleepFor(5, "alerts"),
      Press("enter"), SleepFor(5, "alerts"),
      Press("tab"), Press("enter"), SleepFor(5, "alerts")>>

\* Steps 4 to 11 of execute_real_workflow
NavigationCalls ==
    <<ClickAt("hesap_search", "steps"), SleepFor(20, "steps"),
      ClickAt("hesap_input", "steps"), Typewrite("hesap_no", "steps"), SleepFor(15, "steps"),
      ClickAt("account_item", "steps"), SleepFor(5, "steps"),
      ClickAt("tamam_button", "steps"), SleepFor(5, "steps"),
      ClickAt("tamam_button", "steps"), SleepFor(10, "steps"),
      ClickAt("date_input", "steps"), Typewrite("tarih", "steps"), SleepFor(5, "steps"),
      ClickAt("yenile_btn", "steps"), SleepFor(20, "steps"),
      ClickAt("yeni_btn", "steps"), SleepFor(10, "steps"),
      ClickAt("havale_alma", "steps"), SleepFor(FORM_FILL_DELAY * 2, "steps")>>

\* fill_transaction_form, field by field: steps 12 to 17
EnterBankCode ==
    <<ClickAt("banka_input", "form"), SleepFor(FORM_FILL_DELAY, "form"), Hotkey("ctrl+a"),
      Typewrite("banka_kodu", "form"), SleepFor(FORM_FILL_DELAY, "form")>>
EnterClientCode ==
    <<ClickAt("cari_input", "form"), SleepFor(FORM_FILL_DELAY, "form"), Hotkey("ctrl+a"),
      Typewrite("cari_kodu", "form"), SleepFor(FORM_FILL_DELAY, "form")>>
EnterDocumentDate ==
    <<ClickAt("belge_tarih_field", "form"), Hotkey("ctrl+a"),
      Typewrite("tarih", "form"), SleepFor(FORM_FILL_DELAY, "form")>>
EnterValueDate ==
    <<ClickAt("valor_tarih_field", "form"), Hotkey("ctrl+a"),
      Typewrite("tarih", "form"), SleepFor(FORM_FILL_DELAY, "form")>>
EnterAmount ==
    <<ClickAt("tutar_input", "form"), Hotkey("ctrl+a"),
      Typewrite("tutar", "form"), SleepFor(FORM_FILL_DELAY, "form")>>
EnterDescription ==
    <<ClickAt("aciklama_input", "form"), Hotkey("ctrl+a"),
      TypewriteGet("aciklama", "form"), SleepFor(FORM_FILL_DELAY, "form")>>

\* fill_transaction_form
FormCalls ==
    EnterBankCode \o EnterClientCode \o EnterDocumentDate \o EnterValueDate
        \o EnterAmount \o EnterDescription

\* click_save and click_close: steps 18 and 19
click_save == <<ClickAt("kaydet_btn", "save")>>
click_close == <<ClickAt("kapat_btn", "close")>>

\* the workflow with the save click ahead of the form
Script_save_before_form ==
    AlertCalls \o NavigationCalls \o click_save \o FormCalls \o click_close

\* The calls of one execute_real_workflow, in program order; after the last
\* one it returns True.
Script == AlertCalls \o NavigationCalls \o FormCalls \o click_save \o click_close

\* data.get("aciklama", "Test islemi")
DefaultAciklama == "Test islemi"

\* Records as convert_to_coordinate_format produces them, one that lacks
\* its amount and one that lacks its description.
Record1 ==
    [hesap_no |-> "233442112", tarih |-> "01.02.2024", banka_kodu |-> "6293986",
     cari_kodu |-> "120.12.001", tutar |-> "1500.5", aciklama |-> "GUNLUK POS TAHSILATI"]
Record2 ==
    [hesap_no |-> "233442112", tarih |-> "02.02.2024", banka_kodu |-> "6293986",
     cari_kodu |-> "120.12.001", tutar |-> "70.0", aciklama |-> "GUNLUK POS TAHSILATI"]
RecordNoAmount ==
    [hesap_no |-> "233442112", tarih |-> "03.02.2024", banka_kodu |-> "6293986",
     cari_kodu |-> "120.12.001", aciklama |-> "GUNLUK POS TAHSILATI"]
RecordNoNote ==
    [hesap_no |-> "233442112", tarih |-> "04.02.2024", banka_kodu |-> "6293986",
     cari_kodu |-> "120.12.001", tutar |-> "8.25"]
Records == {Record1, Record2, RecordNoAmount, RecordNoNote}

Batches == UNION {[1..n -> Records] : n \in 0..MaxRecords}

\* Coordinate files the workflow can run on: none (the defaults apply), one
\* with every default key but kapat_btn, one with kaydet_btn only.
NoCloseDoc ==
    Map([k \in DOMAIN default_coordinates \ {"kapat_btn"} |->
            List(default_coordinates[k].items)])
WorkflowFiles == {Missing, Text("json", NoCloseDoc), Text("json", ProperDoc)}

\* Items of the progress queue: a float as a reduced fraction, or the tuple
\* ("error", message).
RECURSIVE GCD(_, _)
GCD(a, b) == IF b = 0 THEN a ELSE GCD(b, a % b)

NoMessage == [exc |-> "", arg |-> ""]

\* idx // total in place of idx / total
Float_floor_division(n, d) ==
    [tag |-> "float", num |-> n \div d, den |-> 1, msg |-> NoMessage]

Float(n, d) ==
    [tag |-> "float", num |-> n \div GCD(n, d), den |-> d \div GCD(n, d), msg |-> NoMessage]
ErrorItem(m) == [tag |-> "error", num |-> 0, den |-> 1, msg |-> m]

\* What pyautogui did: a click at a point, text typed, a key or key chord.
Event(o, p, t) == [op |-> o, at |-> p, text |-> t]
NoPoint == <<>>

NoFault == [exc |-> "", arg |-> ""]
KeyError(k) == [exc |-> "KeyError", arg |-> k]
FailSafe == [exc |-> "FailSafeException", arg |-> ""]

RunAtRest ==
    /\ batch = <<>>
    /\ run_pc = "idle"
    /\ entry_idx = 0
    /\ wf_step = 0
    /\ wf_outcome = "none"
    /\ wf_fault = NoFault
    /\ ui = <<>>
    /\ saved = {}
    /\ queue = <<>>

\* run_automation has been handed a batch and an empty queue.
InitRun ==
    /\ batch \in Batches
    /\ run_pc = "start"
    /\ entry_idx = 0
    /\ wf_step = 0
    /\ wf_outcome = "none"
    /\ wf_fault = NoFault
    /\ ui = <<>>
    /\ saved = {}
    /\ queue = <<>>

\* rpa = PrestonRPAV2(); total = len(data)
RunStart ==
    /\ run_pc = "start"
    /\ v2_pc = "new"
    /\ coordinate_file' = JsonPath
    /\ v2_coordinates' = load_coordinates(files[JsonPath], JsonPath)
    /\ v2_pc' = "ready"
    /\ run_pc' = "for"
    /\ UNCHANGED <<files, lastOp, lastSaved, ops>>
    /\ UNCHANGED <<batch, entry_idx, wf_step, wf_outcome, wf_fault, ui, saved, queue>>
    /\ UNCHANGED nonRunVars

total == Len(batch)

\* for idx, entry in enumerate(data, start=1): the call of
\* execute_real_workflow(entry), or the end of the loop
ForEntry ==
    /\ run_pc = "for"
    /\ IF entry_idx < total
       THEN /\ entry_idx' = entry_idx + 1
            /\ wf_step' = 1
            /\ wf_outcome' = "none"
            /\ ui' = <<>>
            /\ run_pc' = "workflow"
       ELSE /\ run_pc' = "finally"
            /\ UNCHANGED <<entry_idx, wf_step, wf_outcome, ui>>
    /\ UNCHANGED <<batch, wf_fault, saved, queue>>
    /\ UNCHANGED storeVars
    /\ UNCHANGED nonRunVars

entry == batch[entry_idx]

\* the except clause re-raising what it caught
Wrapped_reraised(fault) == fault.exc

\* raise RuntimeError(f"Workflow error: {exc}") from exc
Wrapped(fault) == "RuntimeError"

\* An exception raised by the call at wf_step: dismiss_alerts swallows it
\* and returns; anywhere else the except clause of execute_real_workflow
\* raises RuntimeError to run_automation.
Raised(fault) ==
    IF Script[wf_step].part = "alerts"
    THEN /\ wf_step' = Len(AlertCalls) + 1
         /\ UNCHANGED <<wf_outcome, wf_fault, run_pc>>
    ELSE /\ wf_outcome' = Wrapped(fault)
         /\ wf_fault' = fault
         /\ run_pc' = "except"
         /\ UNCHANGED wf_step

InWorkflow(o) ==
    /\ run_pc = "workflow"
    /\ wf_step <= Len(Script)
    /\ Script[wf_step].op \in o

\* pyautogui.click(*self.coordinates[key])
UiClick ==
    /\ InWorkflow({"click"})
    /\ LET key == Script[wf_step].key
       IN  IF key \notin DOMAIN v2_coordinates
           THEN /\ Raised(KeyError(key))
                /\ UNCHANGED <<ui, saved>>
           ELSE \E done \in BOOLEAN :
                   IF done
                   THEN /\ ui' = Append(ui, Event("click", v2_coordinates[key].items, ""))
                        /\ saved' = IF Script[wf_step].part = "save"
                                    THEN saved \cup {entry_idx} ELSE saved
                        /\ wf_step' = wf_step + 1
                        /\ UNCHANGED <<wf_outcome, wf_fault, run_pc>>
                   ELSE /\ Raised(FailSafe)
                        /\ UNCHANGED <<ui, saved>>
    /\ UNCHANGED <<batch, entry_idx, queue>>
    /\ UNCHANGED storeVars
    /\ UNCHANGED nonRunVars

\* pyautogui.typewrite(data[field]), and typewrite(data.get(field, default))
UiTypewrite ==
    /\ InWorkflow({"typewrite", "typewrite_get"})
    /\ LET field == Script[wf_step].key
       IN  IF field \notin DOMAIN entry /\ Script[wf_step].op = "typewrite"
           THEN /\ Raised(KeyError(field))
                /\ UNCHANGED ui
           ELSE \E done \in BOOLEAN :
                   IF done
                   THEN /\ ui' = Append(ui, Event("typewrite", NoPoint,
                                   IF field \in DOMAIN entry THEN entry[field]
                                   ELSE DefaultAciklama))
                        /\ wf_step' = wf_step + 1
                        /\ UNCHANGED <<wf_outcome, wf_fault, run_pc>>
                   ELSE /\ Raised(FailSafe)
                        /\ UNCHANGED ui
    /\ UNCHANGED <<batch, entry_idx, saved, queue>>
    /\ UNCHANGED storeVars
    /\ UNCHANGED nonRunVars

\* pyautogui.press(key) and pyautogui.hotkey("ctrl", "a")
UiKey ==
    /\ InWorkflow({"press", "hotkey"})
    /\ \E done \in BOOLEAN :
          IF done
          THEN /\ ui' = Append(ui, Event(Script[wf_step].op, NoPoint, Script[wf_step].key))
               /\ wf_step' = wf_step + 1
               /\ UNCHANGED <<wf_outcome, wf_fault, run_pc>>
          ELSE /\ Raised(FailSafe)
               /\ UNCHANGED ui
    /\ UNCHANGED <<batch, entry_idx, saved, queue>>
    /\ UNCHANGED storeVars
    /\ UNCHANGED nonRunVars

\* time.sleep(d)
UiSleep ==
    /\ InWorkflow({"sleep"})
    /\ wf_step' = wf_step + 1
    /\ UNCHANGED <<batch, run_pc, entry_idx, wf_outcome, wf_fault, ui, saved, queue>>
    /\ UNCHANGED storeVars
    /\ UNCHANGED nonRunVars

\* return True
WorkflowReturn ==
    /\ run_pc = "workflow"
    /\ wf_step = Len(Script) + 1
    /\ wf_outcome' = "True"
    /\ run_pc' = "returned"
    /\ UNCHANGED <<batch, entry_idx, wf_step, wf_fault, ui, saved, queue>>
    /\ UNCHANGED storeVars
    /\ UNCHANGED nonRunVars

\* run_automation's loop going on to the next record after a failure
OnFailure_skip_record == "for"

\* Where run_automation goes when execute_real_workflow raises: its except
\* clause is outside the loop.
OnFailure == "finally"

\* if not success: break; progress_queue.put(idx / total)
PutProgress ==
    /\ run_pc = "returned"
    /\ IF wf_outcome # "True"
       THEN /\ run_pc' = "finally"
            /\ UNCHANGED queue
       ELSE /\ queue' = Append(queue, Float(entry_idx, total))
            /\ run_pc' = "for"
    /\ UNCHANGED <<batch, entry_idx, wf_step, wf_outcome, wf_fault, ui, saved>>
    /\ UNCHANGED storeVars
    /\ UNCHANGED nonRunVars

\* except Exception as exc: progress_queue.put(("error", str(exc)))
Except ==
    /\ run_pc = "except"
    /\ queue' = Append(queue, ErrorItem(wf_fault))
    /\ run_pc' = OnFailure
    /\ UNCHANGED <<batch, entry_idx, wf_step, wf_outcome, wf_fault, ui, saved>>
    /\ UNCHANGED storeVars
    /\ UNCHANGED nonRunVars

\* finally: progress_queue.put(1.0)
Finally ==
    /\ run_pc = "finally"
    /\ queue' = Append(queue, Float(1, 1))
    /\ run_pc' = "done"
    /\ UNCHANGED <<batch, entry_idx, wf_step, wf_outcome, wf_fault, ui, saved>>
    /\ UNCHANGED storeVars
    /\ UNCHANGED nonRunVars

WorkflowStep ==
    \/ UiClick
    \/ UiTypewrite
    \/ UiKey
    \/ UiSleep
    \/ WorkflowReturn

----------------------------------------------------------------------------
(* excel_processor.lookup_account_codes over the tables of config.py        *)

BANK_CODES == [a \in {"233442112"} |-> "6293986"]
CARI_CODES == [a \in {"default"} |-> "120.12.001"]

\* dict.get(key): None for a key the table lacks
Get(table, key) == IF key \in DOMAIN table THEN table[key] ELSE NoneStr

\* Account numbers looked up: the configured one, unknown ones, the empty one.
Accounts == {"233442112", "000000000", "987654321", ""}

\* random.randint(1_000_000, 9_999_999): the ends of the range and a value between
RandomCodes == {1000000, 5550123, 9999999}

\* lookup_account_codes(account_no), rnd being what random.randint returns
\* if it is called
lookup_account_codes(account_no, rnd) ==
    LET bank == Get(BANK_CODES, account_no)
        bank_code == IF Truthy(bank) THEN bank ELSE ToString(rnd)
        cari == Get(CARI_CODES, account_no)
        cari_code == IF Truthy(cari) THEN cari ELSE Get(CARI_CODES, "default")
    IN  IF ~Truthy(cari_code) THEN Raise("ValueError")
        ELSE [tag |-> "codes", bank_code |-> bank_code, cari_code |-> cari_code]

LookupsAtRest == lookups = <<>>

\* One call of lookup_account_codes from a caller
Lookup ==
    /\ Len(lookups) < MaxLookups
    /\ \E a \in Accounts, rnd \in RandomCodes :
          lookups' = Append(lookups, [account_no |-> a,
                                      ret |-> lookup_account_codes(a, rnd)])
    /\ UNCHANGED nonLookupVars

----------------------------------------------------------------------------
(* main: the worker thread and the loop that polls progress_queue           *)

\* Records the loop is studied on: a complete one and one whose amount is
\* missing, so that a batch can succeed, or fail at any of its records.
LoopBatches == UNION {[1..n -> {Record1, RecordNoAmount}] : n \in 0..MaxRecords}

\* error_message: None, or the message of the error item
NoError == [tag |-> "None", msg |-> NoMessage]
Message(m) == [tag |-> "str", msg |-> m]

\* The items put on progress_queue and not yet taken from it.
Pending == SubSeq(queue, taken + 1, Len(queue))

LoopAtRest ==
    /\ loop_pc = "idle"
    /\ alive = FALSE
    /\ taken = 0
    /\ error_message = NoError
    /\ bar = Float(0, 1)
    /\ st_error = NoError
    /\ st_success = FALSE

\* progress_placeholder = st.progress(0.0); progress_queue = Queue();
\* thread.start(); error_message = None
InitLoop ==
    /\ loop_pc = "while"
    /\ alive = TRUE
    /\ taken = 0
    /\ error_message = NoError
    /\ bar = Float(0, 1)
    /\ st_error = NoError
    /\ st_success = FALSE

\* the loop test made of thread.is_alive() alone
AfterNotAlive_loop_ends == "after"

\* Where the loop test goes when thread.is_alive() is False: to the second
\* operand of its or.
AfterNotAlive == "empty"

\* while thread.is_alive() ...
LoopAlive ==
    /\ loop_pc = "while"
    /\ loop_pc' = IF alive THEN "get" ELSE AfterNotAlive
    /\ UNCHANGED <<alive, taken, error_message, bar, st_error, st_success>>
    /\ UNCHANGED nonLoopVars

\* ... or not progress_queue.empty()
LoopEmpty ==
    /\ loop_pc = "empty"
    /\ loop_pc' = IF Pending # <<>> THEN "get" ELSE "after"
    /\ UNCHANGED <<alive, taken, error_message, bar, st_error, st_success>>
    /\ UNCHANGED nonLoopVars

\* progress = progress_queue.get(timeout=0.1) and what the loop does with
\* it; queue.Empty is swallowed by except Exception: pass
LoopGet ==
    /\ loop_pc = "get"
    /\ IF Pending = <<>>
       THEN /\ loop_pc' = "sleep"
            /\ UNCHANGED <<taken, error_message, bar, st_error>>
       ELSE LET progress == queue[taken + 1]
            IN  /\ taken' = taken + 1
                /\ IF progress.tag = "error"
                   THEN /\ error_message' = Message(progress.msg)
                        /\ st_error' = Message(progress.msg)
                        /\ loop_pc' = "after"
                        /\ UNCHANGED bar
                   ELSE /\ bar' = progress
                        /\ loop_pc' = "sleep"
                        /\ UNCHANGED <<error_message, st_error>>
    /\ UNCHANGED <<alive, st_success>>
    /\ UNCHANGED nonLoopVars

\* time.sleep(0.1)
LoopSleep ==
    /\ loop_pc = "sleep"
    /\ loop_pc' = "while"
    /\ UNCHANGED <<alive, taken, error_message, bar, st_error, st_success>>
    /\ UNCHANGED nonLoopVars

\* if error_message is None: st.success("Automation finished")
AfterLoop ==
    /\ loop_pc = "after"
    /\ st_success' = (error_message = NoError)
    /\ loop_pc' = "ended"
    /\ UNCHANGED <<alive, taken, error_message, bar, st_error>>
    /\ UNCHANGED nonLoopVars

\* run_automation has returned and its thread ends.
ThreadExit ==
    /\ run_pc = "done"
    /\ alive
    /\ alive' = FALSE
    /\ UNCHANGED <<loop_pc, taken, error_message, bar, st_error, st_success>>
    /\ UNCHANGED nonLoopVars

LoopStep ==
    \/ LoopAlive
    \/ LoopEmpty
    \/ LoopGet
    \/ LoopSleep
    \/ AfterLoop

----------------------------------------------------------------------------
(* convert_to_coordinate_format: the records of one batch                   *)

\* Rows as process_excel_file produces them; toplam_tutar in hundredths.
ExcelItems ==
    [hesap_no : {"233442112", "000000000"},
     tarih : {"01.02.2024", "02.02.2024"},
     toplam_tutar : {150050},
     aciklama : {"GUNLUK POS TAHSILATI"}]

ExcelData == UNION {[1..n -> ExcelItems] : n \in 0..MaxItems}

\* str(x) of a float with at most two decimals, given in hundredths
str(x) ==
    LET whole == x \div 100
        frac == x % 100
    IN  ToString(whole) \o "." \o
            (IF frac % 10 = 0 THEN ToString(frac \div 10)
             ELSE IF frac < 10 THEN "0" \o ToString(frac)
             ELSE ToString(frac))

\* The dict convert_to_coordinate_format appends for an item, codes being
\* what lookup_account_codes returned for it.
FormattedItem(item, codes) ==
    [hesap_no |-> item.hesap_no,
     tarih |-> item.tarih,
     banka_kodu |-> codes.bank_code,
     cari_kodu |-> codes.cari_code,
     tutar |-> str(item.toplam_tutar),
     aciklama |-> item.aciklama]

\* convert_to_coordinate_format(data), rnds[i] being what random.randint
\* returns if the lookup of item i calls it: the list of records, or the
\* ValueError of a lookup
convert_to_coordinate_format(data, rnds) ==
    LET codes == [i \in 1..Len(data) |-> lookup_account_codes(data[i].hesap_no, rnds[i])]
    IN  IF \E i \in 1..Len(data) : IsRaise(codes[i])
        THEN Raise("ValueError")
        ELSE List([i \in 1..Len(data) |-> FormattedItem(data[i], codes[i])])

ConvertAtRest ==
    /\ excel_data = <<>>
    /\ conversions = <<>>

\* A caller holds a list of rows and has not converted it yet.
InitConvert ==
    /\ excel_data \in ExcelData
    /\ conversions = <<>>

\* One call of convert_to_coordinate_format(excel_data)
Convert ==
    /\ Len(conversions) < MaxConversions
    /\ \E rnds \in [1..Len(excel_data) -> RandomCodes] :
          conversions' = Append(conversions, convert_to_coordinate_format(excel_data, rnds))
    /\ UNCHANGED excel_data
    /\ UNCHANGED nonConvertVars

----------------------------------------------------------------------------
(* Specifications                                                           *)

\* The store while the engine is studied, and the engine while the store is.
StoreAtRest ==
    /\ coordinate_file = JsonPath
    /\ v2_coordinates = EmptyMap
    /\ v2_pc = "new"
    /\ files = [p \in Paths |-> Missing]
    /\ lastOp = NoOp
    /\ lastSaved = [p \in Paths |-> NoSave]
    /\ ops = 0

EngineAtRest ==
    /\ coord_file = Missing
    /\ coordinates = EmptyMap
    /\ caps = AllCaps
    /\ pc = "new"
    /\ req = NoRequest
    /\ strategies = <<>>
    /\ idx = 0
    /\ start = 0
    /\ now = 0
    /\ screen = [text |-> None, template |-> None]
    /\ clicks = <<>>
    /\ waits = <<>>
    /\ invoked = <<>>
    /\ exhausted = {}
    /\ faulted = {}
    /\ result = "none"
    /\ polls = 0
    /\ lastStart = 0
    /\ lastEnd = 0
    /\ lastSeen = None
    /\ found = NotFound
    /\ everAbsent = {}
    /\ usedFallback = FALSE

FindersAtRest ==
    /\ call = NoCall
    /\ ret = None
    /\ fn_pc = "idle"

\* click_element calls on a constructed V3 engine
Init == InitEngine /\ StoreAtRest /\ FindersAtRest /\ RunAtRest /\ LookupsAtRest /\ LoopAtRest /\ ConvertAtRest

Next ==
    \/ Construct
    \/ click_element
    \/ EngineStep

Spec == Init /\ [][Next]_vars

\* execute_workflow on a constructed V3 engine
NextWorkflow ==
    \/ Construct
    \/ execute_workflow
    \/ EngineStep

SpecWorkflow == Init /\ [][NextWorkflow]_vars

\* The V2 coordinate store
InitStoreSpec == InitStore /\ EngineAtRest /\ FindersAtRest /\ RunAtRest /\ LookupsAtRest /\ LoopAtRest /\ ConvertAtRest

NextStore ==
    \/ ConstructV2
    \/ Load
    \/ Save
    \/ calibrate_coordinate

SpecStore == InitStoreSpec /\ [][NextStore]_vars

\* The V2 coordinate store as its public methods use it
NextCalibrate ==
    \/ ConstructV2
    \/ Load
    \/ calibrate_coordinate

SpecCalibrate == InitStoreSpec /\ [][NextCalibrate]_vars

\* click_element calls that return, the thread never stopping for good
\* while it has a step to take
SpecTerminating == Init /\ [][Next]_vars /\ WF_vars(ThreadStep)

\* click_element calls on an engine some of whose libraries may be missing
InitCaps == InitEngineCaps /\ StoreAtRest /\ FindersAtRest /\ RunAtRest /\ LookupsAtRest /\ LoopAtRest /\ ConvertAtRest

SpecCaps == InitCaps /\ [][Next]_vars

\* The finders called on their own
InitFindersSpec == InitFinders /\ EngineAtRest /\ StoreAtRest /\ RunAtRest /\ LookupsAtRest /\ LoopAtRest /\ ConvertAtRest

NextFinders ==
    \/ FindElementByText
    \/ MatchTemplate

SpecFinders == InitFindersSpec /\ [][NextFinders]_vars

\* run_automation on a batch
InitRunSpec ==
    /\ InitRun
    /\ coordinate_file = JsonPath
    /\ v2_coordinates = EmptyMap
    /\ v2_pc = "new"
    /\ \E f \in WorkflowFiles : files = [p \in Paths |-> IF p = JsonPath THEN f ELSE Missing]
    /\ lastOp = NoOp
    /\ lastSaved = [p \in Paths |-> NoSave]
    /\ ops = 0
    /\ EngineAtRest
    /\ FindersAtRest
    /\ LookupsAtRest
    /\ LoopAtRest /\ ConvertAtRest

NextRun ==
    \/ RunStart
    \/ ForEntry
    \/ WorkflowStep
    \/ PutProgress
    \/ Except
    \/ Finally

SpecRun == InitRunSpec /\ [][NextRun]_vars

\* main from thread.start() on: the worker and the polling loop, interleaved
InitLoopSpec ==
    /\ InitRun
    /\ batch \in LoopBatches
    /\ InitLoop
    /\ StoreAtRest
    /\ EngineAtRest
    /\ FindersAtRest
    /\ LookupsAtRest
    /\ ConvertAtRest

NextLoop ==
    \/ NextRun
    \/ ThreadExit
    \/ LoopStep

SpecLoop == InitLoopSpec /\ [][NextLoop]_vars

\* convert_to_coordinate_format called, more than once, on one list of rows
InitConvertSpec ==
    /\ InitConvert
    /\ EngineAtRest
    /\ StoreAtRest
    /\ FindersAtRest
    /\ RunAtRest
    /\ LookupsAtRest
    /\ LoopAtRest

SpecConvert == InitConvertSpec /\ [][Convert]_vars

\* lookup_account_codes called by a caller
InitLookupSpec ==
    LookupsAtRest /\ EngineAtRest /\ StoreAtRest /\ FindersAtRest /\ RunAtRest /\ LoopAtRest /\ ConvertAtRest

SpecLookup == InitLookupSpec /\ [][Lookup]_vars

----------------------------------------------------------------------------
(* Vocabulary of the properties                                             *)

Fields == {"text", "template", "accessibility", "selector"}

\* The locator fields a call supplies non-empty.
SuppliedFields(r) == {f \in Fields : r[f] # NoneStr /\ r[f] # ""}

\* The priority order text, template, accessibility, selector.
Rank(f) ==
    CASE f = "text" -> 1
      [] f = "template" -> 2
      [] f = "accessibility" -> 3
      [] OTHER -> 4

InvokedSet == {invoked[i] : i \in 1..Len(invoked)}

\* Supplied strategies whose target has been on screen since the call began.
PresentWholeCall == {k \in SuppliedFields(req) \cap Kinds : k \notin everAbsent}

FirstPresent ==
    CHOOSE k \in PresentWholeCall : \A j \in PresentWholeCall : Rank(k) <= Rank(j)

\* The call supplies a coord_key that is a key of the engine's map.
KeyInMap == req.coord_key # NoneStr /\ req.coord_key \in DOMAIN coordinates

ElementNotResolved == "RuntimeError: No valid strategy could click the element"

----------------------------------------------------------------------------
(* C1 as stated: in a call with a positive timeout in which the target of   *)
(* some supplied strategy is on screen throughout, exactly one click is     *)
(* made, at the center of the box returned by the first such strategy in    *)
(* chain order, no later strategy is invoked and the fallback is not used.  *)
(* It fails when an earlier strategy's target appears during its own wait.  *)
C1_FirstPresentClicked ==
    (pc = "returned" /\ Accepted(req) /\ req.timeout > 0 /\ PresentWholeCall # {}) =>
        /\ Len(clicks) = 1
        /\ found.kind = FirstPresent
        /\ clicks[1] = <<found.box.left + (found.box.width \div 2),
                         found.box.top + (found.box.height \div 2)>>
        /\ ~usedFallback
        /\ invoked[Len(invoked)] = FirstPresent

(* C1 as amended: in such a call exactly one click is made, at the center  *)
(* (left + width div 2, top + height div 2) of the box returned by the     *)
(* first strategy in chain order that returns a box, which is the first    *)
(* strategy whose target is on screen throughout or a supplied strategy    *)
(* before it; no strategy after it is invoked and the fallback is unused.  *)
C1_FirstReturnedBoxClicked ==
    (pc = "returned" /\ Accepted(req) /\ req.timeout > 0 /\ PresentWholeCall # {}) =>
        /\ result = "ok"
        /\ Len(clicks) = 1
        /\ found.kind \in SuppliedFields(req)
        /\ Rank(found.kind) <= Rank(FirstPresent)
        /\ found.box = lastSeen
        /\ clicks[1] = <<found.box.left + (found.box.width \div 2),
                         found.box.top + (found.box.height \div 2)>>
        /\ ~usedFallback
        /\ invoked[Len(invoked)] = found.kind
        /\ \A k \in InvokedSet : Rank(k) <= Rank(found.kind)
        /\ \A k \in InvokedSet \ {found.kind} : k \in exhausted \cup faulted

\* A call in which text timed out and the template, on screen throughout,
\* was clicked.
C1_Witness ==
    /\ pc = "returned"
    /\ req.timeout > 0
    /\ PresentWholeCall = {"template"}
    /\ "text" \in exhausted
    /\ found.kind = "template"
    /\ Len(clicks) = 1

----------------------------------------------------------------------------
(* C2: when every supplied strategy has ended in TimeoutError and the       *)
(* coord_key is a key of the map, the step after the loop is the one click  *)
(* at the stored (x, y) and a successful return, with no wait entered and   *)
(* no finder invoked in between; also with no strategy supplied.            *)
C2_FallbackClick ==
    [][(pc = "fallback" /\ SuppliedFields(req) \subseteq exhausted /\ KeyInMap) =>
          /\ pc' = "returned"
          /\ result' = "ok"
          /\ clicks' = <<coordinates[req.coord_key].items>>
          /\ waits' = waits
          /\ invoked' = invoked
          /\ polls' = polls
          /\ lastStart' = lastStart]_vars

\* A pure coordinate click (no strategy supplied) has returned.
C2_Witness ==
    /\ pc = "returned"
    /\ SuppliedFields(req) = {}
    /\ KeyInMap
    /\ usedFallback
    /\ clicks = <<<<900, 600>>>>

----------------------------------------------------------------------------
(* C3: a call in which every supplied strategy failed (timed out or raised) *)
(* and no coord_key was given, or one that is no key of the map, ends in    *)
(* the ElementNotResolved RuntimeError without any click.                   *)
C3_NotResolvedNoClick ==
    (/\ pc = "returned"
     /\ SuppliedFields(req) \subseteq exhausted \cup faulted
     /\ ~KeyInMap) =>
        /\ result = ElementNotResolved
        /\ clicks = <<>>

\* Both strategies failed and the key is unknown to the map.
C3_Witness ==
    /\ pc = "returned"
    /\ SuppliedFields(req) = {"text", "template"}
    /\ exhausted = {"text"}
    /\ faulted = {"template"}
    /\ req.coord_key = "no_such_key"
    /\ result = ElementNotResolved

----------------------------------------------------------------------------
----------------------------------------------------------------------------
----------------------------------------------------------------------------
(* C6: an engine constructed while its coordinate file is absent or         *)
(* malformed holds the built-in default map, so a call whose strategies are *)
(* all exhausted and whose coord_key is a default key ends with the click   *)
(* at the default position.                                                 *)
C6_DefaultsWithoutFile ==
    (pc # "new" /\ coord_file \in {Missing, Garbage}) =>
        /\ coordinates = default_coordinates
        /\ (/\ pc = "returned"
            /\ SuppliedFields(req) \subseteq exhausted \cup faulted
            /\ req.coord_key \in DOMAIN default_coordinates) =>
               /\ result = "ok"
               /\ clicks = <<default_coordinates[req.coord_key].items>>

----------------------------------------------------------------------------
(* C10 as stated: consecutive finder invocations of one wait are one poll   *)
(* interval apart, each returns what the screen shows at that moment, the   *)
(* first box ends the wait at once, and a wait whose k-th poll finds the    *)
(* box returns at least k-1 poll intervals after entry and before the       *)
(* timeout. It fails when the k-th invocation itself runs past the timeout. *)
C10_ReturnsBeforeTimeout ==
    /\ (pc = "poll" /\ polls >= 1) => now - lastEnd = PollInterval
    /\ pc \in {"sleep", "found"} => lastSeen = screen[strategies[idx]]
    /\ pc = "sleep" => ~(lastSeen.tag = "Box")
    /\ pc = "found" =>
          /\ found.box = lastSeen
          /\ found.kind = strategies[idx]
          /\ now = lastEnd
          /\ now - start >= (polls - 1) * PollInterval
          /\ now - start < req.timeout

(* C10 as amended: as stated, except that it is the k-th poll that starts  *)
(* before the timeout; the wait returns when that invocation returns,      *)
(* which can be at or after the timeout.                                   *)
C10_LastPollStartsBeforeTimeout ==
    /\ (pc = "poll" /\ polls >= 1) => now - lastEnd = PollInterval
    /\ pc \in {"sleep", "found"} => lastSeen = screen[strategies[idx]]
    /\ pc = "sleep" => ~(lastSeen.tag = "Box")
    /\ pc = "found" =>
          /\ found.box = lastSeen
          /\ found.kind = strategies[idx]
          /\ now = lastEnd
          /\ now - start >= (polls - 1) * PollInterval
          /\ lastStart - start < req.timeout
          /\ lastStart - start >= (polls - 1) * PollInterval

\* A wait returned the box its third poll found.
C10_Witness ==
    /\ pc = "found"
    /\ polls = 3
    /\ found.box = ElementBox(10, 20, 5, 3)

----------------------------------------------------------------------------
(* Vocabulary of the waits' properties                                      *)

\* The wait of the strategy before strategies[idx] has just been left by an
\* exception and the loop has not yet gone on.
WaitJustFailed == pc = "for" /\ idx > 1

LastWaited == strategies[idx - 1]

----------------------------------------------------------------------------
(* C11 as stated: a wait whose finder never returns a box and never raises  *)
(* ends in TimeoutError, returns no box, not before the timeout has elapsed *)
(* since the wait was entered and at most one poll interval after it.       *)
(* It fails when the last finder invocation itself takes time.              *)
C11_FailsWithinOnePollInterval ==
    (WaitJustFailed /\ LastWaited \notin faulted) =>
        /\ LastWaited \in exhausted
        /\ found = NotFound
        /\ now - start >= req.timeout
        /\ now - start <= req.timeout + PollInterval

(* C11 as amended: such a wait ends in TimeoutError, returns no box, not    *)
(* before the timeout has elapsed, and exactly one poll interval after the  *)
(* return of its last finder invocation, which began before the timeout     *)
(* (at entry when the timeout admits no invocation): the timeout is overrun *)
(* by less than one poll interval plus the duration of that invocation.     *)
C11_FailsOnePollAfterLastInvocation ==
    (WaitJustFailed /\ LastWaited \notin faulted) =>
        /\ LastWaited \in exhausted
        /\ found = NotFound
        /\ now - start >= req.timeout
        /\ polls = 0 => now = start
        /\ polls > 0 =>
              /\ lastStart - start < req.timeout
              /\ now = lastEnd + PollInterval
              /\ now - start < req.timeout + (lastEnd - lastStart) + PollInterval

\* A wait of three polls timed out more than a poll interval past its timeout.
C11_Witness ==
    /\ WaitJustFailed
    /\ LastWaited \in exhausted
    /\ polls = 3
    /\ now - start > req.timeout + PollInterval

----------------------------------------------------------------------------
(* C12: a box of width 0 or height 0 is never taken as found: every box a   *)
(* wait returns, and every box whose center is clicked, has positive width  *)
(* and positive height.                                                     *)
C12_NoZeroAreaBox ==
    found.box.tag = "Box" =>
        /\ found.box.width > 0
        /\ found.box.height > 0

----------------------------------------------------------------------------
(* Vocabulary of the finders' properties                                    *)

\* Two characters that are the same letter in either case.
SameLetter(c, d) == c = d \/ {c, d} \in {{"k", "K"}, {"a", "A"}}

\* The word, without the whitespace around it, reads as the target when
\* case is ignored.
MatchesTarget(word, t) ==
    \E a \in 0..Len(word), b \in 0..Len(word) :
        /\ a + b <= Len(word)
        /\ \A i \in 1..a : word[i] \in Whitespace
        /\ \A i \in (Len(word) - b + 1)..Len(word) : word[i] \in Whitespace
        /\ LET core == SubSeq(word, a + 1, Len(word) - b)
           IN  /\ core # <<>> => (core[1] \notin Whitespace /\ core[Len(core)] \notin Whitespace)
               /\ Len(core) = Len(t)
               /\ \A i \in 1..Len(core) : SameLetter(core[i], t[i])

\* Positions, in scan order, of the words that match the call's target.
MatchingPositions == {i \in 1..Len(call.words) : MatchesTarget(call.words[i], call.text)}

\* The box pytesseract reported for the word at position i.
ReportedBox(i) ==
    LET d == image_to_data(call.words)[i]
    IN  [tag |-> "Box", left |-> d.left, top |-> d.top, width |-> d.width, height |-> d.height]

----------------------------------------------------------------------------
(* C13: find_element_by_text returns the box of the first word, in scan     *)
(* order, whose text without surrounding whitespace equals the target when  *)
(* case is ignored, and None when no word does.                             *)
C13_FirstMatchingWord ==
    (fn_pc = "returned" /\ call.fn = "find_element_by_text") =>
        IF MatchingPositions = {}
        THEN ret = None
        ELSE \E i \in MatchingPositions :
                /\ \A j \in MatchingPositions : i <= j
                /\ ret = ReportedBox(i)

\* The target occurs twice, in other spellings and not as the first word;
\* the box returned is the one of the earlier occurrence.
C13_Witness ==
    /\ fn_pc = "returned"
    /\ call.fn = "find_element_by_text"
    /\ call.text = <<"K", "a">>
    /\ call.words = << <<"a", "k">>, <<" ", "K", "a", " ">>, <<"K", "A">> >>
    /\ ret = ReportedBox(2)

----------------------------------------------------------------------------
(* C14: match_template returns a box exactly when the best score is at or   *)
(* above the confidence (0.8 unless given): a score equal to it is taken,   *)
(* one a hundredth below is not; the box has the template's width and       *)
(* height and its left and top are the best-match location.                 *)
C14_ThresholdInclusive ==
    (fn_pc = "returned" /\ call.fn = "match_template" /\ call.template # None) =>
        /\ ret # None <=> call.max_val >= call.confidence
        /\ call.max_val = call.confidence - 1 => ret = None
        /\ ret # None =>
              /\ ret.width = call.template.w
              /\ ret.height = call.template.h
              /\ ret.left = call.max_loc[1]
              /\ ret.top = call.max_loc[2]

\* A score of exactly 0.80 against the default confidence was accepted.
C14_Witness ==
    /\ fn_pc = "returned"
    /\ call.fn = "match_template"
    /\ call.confidence = 80
    /\ call.max_val = 80
    /\ ret = [tag |-> "Box", left |-> 100, top |-> 40, width |-> 8, height |-> 5]

----------------------------------------------------------------------------
(* Vocabulary of the workflow's properties                                  *)

\* The point the coordinate map gives for a key.
PointOf(k) == v2_coordinates[k].items

\* Positions in ui of the clicks on the field of key k.
ClicksOn(k) == {i \in 1..Len(ui) : ui[i].op = "click" /\ ui[i].at = PointOf(k)}

\* Positions in ui at which value was typed into the field of key k: the
\* last click before the typing was on that field.
Filled(k, value) ==
    {i \in 1..Len(ui) :
        /\ ui[i].op = "typewrite"
        /\ ui[i].text = value
        /\ \E j \in ClicksOn(k) :
              /\ j < i
              /\ \A m \in (j + 1)..(i - 1) : ui[m].op # "click"}

\* Positions in ui at which anything was typed into the field of key k.
FilledAny(k) ==
    {i \in 1..Len(ui) :
        /\ ui[i].op = "typewrite"
        /\ \E j \in ClicksOn(k) :
              /\ j < i
              /\ \A m \in (j + 1)..(i - 1) : ui[m].op # "click"}

FormFields ==
    {"banka_input", "cari_input", "belge_tarih_field", "valor_tarih_field", "tutar_input",
     "aciklama_input"}

\* The workflow of the current record has performed its last call.
WorkflowSucceeded ==
    \/ run_pc = "workflow" /\ wf_step = Len(Script) + 1
    \/ run_pc = "returned"

\* The workflow of the current record has raised.
WorkflowFailed == wf_outcome = "RuntimeError"

----------------------------------------------------------------------------
(* C15: in a run of the workflow in which no call failed, the bank code,    *)
(* the client code, the date and the amount of the record are typed in that *)
(* order, each right after the click on its own field, the one save click   *)
(* comes after all of them, and the workflow returns True.                  *)
C15_FieldsInOrderThenSave ==
    WorkflowSucceeded =>
        /\ \E b \in Filled("banka_input", entry.banka_kodu),
              c \in Filled("cari_input", entry.cari_kodu),
              d \in Filled("belge_tarih_field", entry.tarih),
              v \in Filled("valor_tarih_field", entry.tarih),
              a \in Filled("tutar_input", entry.tutar) :
                /\ b < c /\ c < d /\ d < v /\ v < a
                /\ Cardinality(ClicksOn("kaydet_btn")) = 1
                /\ \A s \in ClicksOn("kaydet_btn") : a < s
        /\ \A k \in FormFields : Cardinality(FilledAny(k)) = 1
        /\ run_pc = "returned" => wf_outcome = "True"

\* The second record of a batch went through; neither lacked a field the
\* form needs.
C15_Witness ==
    /\ run_pc = "returned"
    /\ wf_outcome = "True"
    /\ entry_idx = 2
    /\ entry = Record2
    /\ saved = {1, 2}

----------------------------------------------------------------------------
(* C16: whenever the workflow of a record has raised, the save click was   *)
(* not made for that record, nothing more is done by the workflow and       *)
(* run_automation gets the RuntimeError. It fails when the closing click,   *)
(* which follows the save click, is the call that fails.                    *)
C16_NoSaveWhenWorkflowFails ==
    /\ [](WorkflowFailed => entry_idx \notin saved)
    /\ [][WorkflowFailed => (ui' = ui /\ wf_step' = wf_step /\ saved' = saved)]_vars
    /\ [](WorkflowFailed => run_pc \in {"except", "finally", "done"})

----------------------------------------------------------------------------
(* C17: once the workflow of record i has raised, no call of a workflow is  *)
(* made for a later record, the queue holds the fractions of the records    *)
(* before i only, and the failure is on the queue as one ("error", message) *)
(* item, after which run_automation puts nothing but its final 1.0.         *)
C17_FailureStopsBatch ==
    /\ [][WorkflowFailed =>
             (entry_idx' = entry_idx /\ wf_step' = wf_step /\ ui' = ui /\ saved' = saved)]_vars
    /\ [](WorkflowFailed =>
             LET n == entry_idx - 1
                 rest == SubSeq(queue, n + 1, Len(queue))
             IN  /\ Len(queue) >= n
                 /\ \A j \in 1..n : queue[j] = [tag |-> "float", num |-> j \div GCD(j, Len(batch)),
                                                den |-> Len(batch) \div GCD(j, Len(batch)),
                                                msg |-> NoMessage]
                 /\ IF run_pc = "except" THEN rest = <<>>
                    ELSE IF run_pc = "finally"
                    THEN rest = <<[tag |-> "error", num |-> 0, den |-> 1, msg |-> wf_fault]>>
                    ELSE /\ run_pc = "done"
                         /\ rest = <<[tag |-> "error", num |-> 0, den |-> 1, msg |-> wf_fault],
                                     [tag |-> "float", num |-> 1, den |-> 1, msg |-> NoMessage]>>)

\* The second of two records failed: the queue holds 1/2, the error, 1.0.
C17_Witness ==
    /\ run_pc = "done"
    /\ WorkflowFailed
    /\ Len(batch) = 2
    /\ entry_idx = 2
    /\ Len(queue) = 3
    /\ queue[1].num = 1 /\ queue[1].den = 2
    /\ queue[2].tag = "error"
    /\ queue[3].tag = "float" /\ queue[3].num = 1 /\ queue[3].den = 1

----------------------------------------------------------------------------
(* C18: lookup_account_codes raises ValueError for every account that is in *)
(* neither the bank-code table nor the client-code table; for an account of *)
(* the bank-code table it returns that table's bank code with the account's *)
(* client code, or the default client code when the account has none.       *)
C18_UnknownAccountRaises ==
    \A i \in 1..Len(lookups) :
        LET a == lookups[i].account_no
            r == lookups[i].ret
        IN  /\ a \notin (DOMAIN BANK_CODES \cup DOMAIN CARI_CODES) =>
                  (r.tag = "raise" /\ r.exc = "ValueError")
            /\ a \in DOMAIN BANK_CODES =>
                  /\ r.tag = "codes"
                  /\ r.bank_code = BANK_CODES[a]
                  /\ r.cari_code = IF a \in DOMAIN CARI_CODES THEN CARI_CODES[a]
                                   ELSE CARI_CODES["default"]

----------------------------------------------------------------------------
(* Vocabulary of the properties about missing libraries                     *)

\* The libraries the finder of a kind needs.
Needs(k) == IF k = "text" THEN {"pyautogui", "pytesseract"} ELSE {"pyautogui", "cv2"}

\* Kinds whose finder lacks a library.
Disabled == {k \in Kinds : ~(Needs(k) \subseteq caps)}

\* The call ended the way the fallback contract says: with the click at the
\* stored point when the key is in the map, with ElementNotResolved if not.
FallbackContractKept ==
    IF KeyInMap
    THEN result = "ok" /\ clicks = <<coordinates[req.coord_key].items>>
    ELSE result = ElementNotResolved /\ clicks = <<>>

PyautoguiRequired == "RuntimeError: pyautogui is required for clicking"

----------------------------------------------------------------------------
(* C19 as stated: with a library missing, a strategy that relies on it      *)
(* never raises and never finds, and a call in which no strategy resolved   *)
(* ends as the fallback contract says; no other error leaves the call.      *)
(* It fails when the missing library is pyautogui.                          *)
C19_FallbackContractWithoutCapability ==
    (caps # AllCaps /\ Accepted(req)) =>
        /\ Disabled \cap faulted = {}
        /\ found.kind \notin Disabled
        /\ result \in {"none", "ok", ElementNotResolved}
        /\ (pc = "returned" /\ found = NotFound) => FallbackContractKept

(* C19 as amended: when the OCR backend or the image-matching backend is    *)
(* missing, a strategy that relies on it yields not-found on each           *)
(* invocation instead of raising, and click_element honours the fallback    *)
(* contract: the fallback click when coord_key is in the map, otherwise     *)
(* ElementNotResolved. When pyautogui, the backend of both the screenshot   *)
(* and the click, is missing, click_element raises RuntimeError (pyautogui  *)
(* is required for clicking) before any strategy is invoked and without a   *)
(* click, whether or not coord_key is in the map.                           *)
C19_FallbackContractWithPyautogui ==
    (caps # AllCaps /\ Accepted(req)) =>
        /\ Disabled \cap faulted = {}
        /\ found.kind \notin Disabled
        /\ "pyautogui" \in caps =>
              /\ result \in {"none", "ok", ElementNotResolved}
              /\ (pc = "returned" /\ found = NotFound) => FallbackContractKept
        /\ ("pyautogui" \notin caps /\ pc = "returned") =>
              /\ result = PyautoguiRequired
              /\ clicks = <<>>
              /\ waits = <<>>
              /\ invoked = <<>>

\* Without pytesseract the text strategy timed out although its word was on
\* screen, and the call ended with the fallback click.
C19_Witness ==
    /\ pc = "returned"
    /\ "pytesseract" \notin caps
    /\ "text" \in exhausted
    /\ screen.text.tag = "Box"
    /\ usedFallback
    /\ result = "ok"

----------------------------------------------------------------------------
(* C20: every call of click_element returns, having clicked once or raising *)
(* ElementNotResolved; the timeout of each strategy runs from the moment    *)
(* its own wait starts, so that the fallback step is reached only after as  *)
(* many full timeouts as strategies timed out.                              *)
C20_TerminatesAfterFullBudgets ==
    /\ (pc \notin {"new", "idle", "returned"}) ~> (pc = "returned")
    /\ [](pc = "returned" /\ Accepted(req) =>
             \/ result = "ok" /\ Len(clicks) = 1
             \/ result = ElementNotResolved /\ clicks = <<>>)
    /\ [][(pc = "for" /\ pc' = "while") => start' = now]_vars
    /\ [](WaitJustFailed /\ LastWaited \in exhausted => now - start >= req.timeout)
    /\ [](pc = "fallback" => now >= Cardinality(exhausted) * req.timeout)

\* Two strategies timed out one after the other and the fallback step was
\* reached after two full timeouts.
C20_Witness ==
    /\ pc = "fallback"
    /\ exhausted = {"text", "template"}
    /\ req.timeout = MaxTimeout
    /\ now >= 2 * MaxTimeout

----------------------------------------------------------------------------
(* Vocabulary of the store's properties                                    *)

\* The file's text parses under the parser load_coordinates picks for path.
Parses(file, path) ==
    /\ file.kind = "text"
    /\ IF path = YamlPath THEN file.syntax \in {"json", "yaml"} ELSE file.syntax = "json"

\* A coordinate file proper: a mapping of keys to two-element arrays.
WellFormed(file, path) ==
    /\ Parses(file, path)
    /\ file.doc.tag = "map"
    /\ \A k \in DOMAIN file.doc.entries :
          /\ file.doc.entries[k].tag = "list"
          /\ Len(file.doc.entries[k].items) = 2

\* The map a proper coordinate file denotes.
MapOf(file) == [k \in DOMAIN file.doc.entries |-> Tuple(file.doc.entries[k].items)]

----------------------------------------------------------------------------
(* C7: load_coordinates returns the file's map for a well-formed file and   *)
(* exactly default_coordinates() for a missing, unreadable or malformed one *)
C7_LoadDefaultsUnlessWellFormed ==
    lastOp.op = "load" =>
        LET file == files[lastOp.path]
        IN  IF WellFormed(file, lastOp.path)
            THEN lastOp.ret = MapOf(file)
            ELSE lastOp.ret = default_coordinates

----------------------------------------------------------------------------
(* C8: loading a path returns exactly the map last saved there by           *)
(* _save_coordinates: same keys, same point for every key.                  *)
C8_SaveLoadRoundTrip ==
    (lastOp.op = "load" /\ lastSaved[lastOp.path].saved) =>
        lastOp.ret = lastSaved[lastOp.path].map

\* A two-key map saved to the YAML path has been loaded back.
C8_Witness ==
    /\ lastOp.op = "load"
    /\ lastOp.path = YamlPath
    /\ lastSaved[YamlPath].saved
    /\ DOMAIN lastSaved[YamlPath].map = StoreKeys
    /\ lastOp.ret = lastSaved[YamlPath].map

----------------------------------------------------------------------------
(* C9: after calibrate_coordinate(key) the in-memory map is the in-memory   *)
(* map of before the call with only key's entry set to the captured         *)
(* position, and the persisted file holds that same map.                    *)
C9_CalibrateMergesIntoMemory ==
    (lastOp.op = "calibrate" /\ lastOp.arg = NoneStr) =>
        /\ v2_coordinates = SetItem(lastOp.before, lastOp.key, Tuple(lastOp.pos))
        /\ files[coordinate_file].kind = "text"
        /\ files[coordinate_file].doc =
               Map([k \in DOMAIN v2_coordinates |-> List(v2_coordinates[k].items)])

----------------------------------------------------------------------------
(* C21: a wait with a timeout of zero or less raises TimeoutError without   *)
(* invoking its finder even once; so a call of click_element with such a    *)
(* timeout never resolves a target dynamically, even when the target is on  *)
(* screen, and ends with the coordinate fallback or ElementNotResolved.     *)
C21_NoInvocationWithoutBudget ==
    (Accepted(req) /\ req.timeout <= 0) =>
        /\ pc \notin {"poll", "sleep", "found"}
        /\ invoked = <<>>
        /\ polls = 0
        /\ found = NotFound
        /\ faulted = {}
        /\ WaitJustFailed => LastWaited \in exhausted /\ now = start
        /\ pc \in {"fallback", "returned"} =>
              exhausted = SuppliedFields(req) \cap Kinds
        /\ pc = "returned" =>
              IF KeyInMap
              THEN /\ result = "ok"
                   /\ usedFallback
                   /\ clicks = <<coordinates[req.coord_key].items>>
              ELSE /\ result = ElementNotResolved
                   /\ clicks = <<>>

\* A call with timeout 0 whose word was on screen from entry to return ended
\* with the click at the stored point.
C21_Witness ==
    /\ pc = "returned"
    /\ req.timeout = 0
    /\ req.text = "Kaydet"
    /\ screen.text.tag = "Box"
    /\ "text" \notin everAbsent
    /\ waits = <<"text">>
    /\ usedFallback
    /\ result = "ok"

----------------------------------------------------------------------------
(* Vocabulary of the properties about the outcomes of the workflow          *)

\* The keys clicked by steps 4 to 19, in the order of the steps.
StepKeys ==
    <<"hesap_search", "hesap_input", "account_item", "tamam_button", "tamam_button",
      "date_input", "yenile_btn", "yeni_btn", "havale_alma", "banka_input", "cari_input",
      "belge_tarih_field", "valor_tarih_field", "tutar_input", "aciklama_input",
      "kaydet_btn", "kapat_btn">>

IsClick(e) == e.op = "click"

\* The clicks made for the current record.
Clicked == SelectSeq(ui, IsClick)

\* Every step from 4 to 19 made its click, in order, and none twice.
AllStepsInOrder ==
    /\ Len(Clicked) = Len(StepKeys)
    /\ \A i \in 1..Len(StepKeys) : Clicked[i].at = PointOf(StepKeys[i])

----------------------------------------------------------------------------
----------------------------------------------------------------------------
(* Vocabulary of the properties about the polling loop                      *)

\* Positions of the error items the worker has put.
ErrorsPut == {i \in 1..Len(queue) : queue[i].tag = "error"}

\* The loop has been left, by its test or by its break.
LoopOver == loop_pc \in {"after", "ended"}

----------------------------------------------------------------------------
(* C23: in every interleaving of the worker thread and the polling loop, an *)
(* error item the worker put has been taken and displayed when the loop is  *)
(* left; Automation finished is reported if and only if the worker put no   *)
(* error item; and when there was no error the loop is not left while the   *)
(* worker is alive or an item it put is still on the queue.                 *)
C23_ErrorSeenBeforeLoopEnds ==
    /\ [](LoopOver =>
             \A i \in ErrorsPut :
                 /\ i <= taken
                 /\ error_message = [tag |-> "str", msg |-> queue[i].msg]
                 /\ st_error = [tag |-> "str", msg |-> queue[i].msg])
    /\ [](loop_pc = "ended" => (st_success <=> ErrorsPut = {}))
    /\ [](~LoopOver => ~st_success)
    /\ []((LoopOver /\ st_error.tag = "None") =>
             /\ ~alive
             /\ run_pc = "done"
             /\ taken = Len(queue)
             /\ ErrorsPut = {})
    /\ [][(LoopOver /\ ErrorsPut = {}) => queue' = queue]_vars

\* The loop has displayed the error of the second record and ended while
\* the worker, still alive, has not put its final 1.0 yet.
C23_Witness ==
    /\ loop_pc = "ended"
    /\ alive
    /\ run_pc = "finally"
    /\ Len(queue) = 2
    /\ queue[2].tag = "error"
    /\ taken = 2
    /\ st_error.tag = "str"
    /\ ~st_success

----------------------------------------------------------------------------
(* Vocabulary of the properties about the progress queue                    *)

\* The item is the float 1.0.
IsOne(item) == item.tag = "float" /\ item.num = item.den

\* The items put before the final one, once run_automation has returned;
\* before that, all the items.
BeforeFinal == IF run_pc = "done" THEN SubSeq(queue, 1, Len(queue) - 1) ELSE queue

\* Positions in BeforeFinal of the progress fractions.
Fractions == {j \in 1..Len(BeforeFinal) : BeforeFinal[j].tag = "float"}

\* Records whose workflow has returned True and whose fraction has been put.
Reported == IF run_pc \in {"workflow", "returned"} THEN entry_idx - 1
            ELSE IF wf_outcome = "RuntimeError" THEN entry_idx - 1
            ELSE entry_idx

----------------------------------------------------------------------------
(* C24: for every batch, the empty one included, and every outcome, the     *)
(* last item run_automation puts is 1.0; the fractions put before it are    *)
(* idx/total for idx = 1, 2, ..., strictly increasing and in (0, 1], one    *)
(* per record, each put only once the workflow of record idx has returned   *)
(* True.                                                                    *)
C24_FractionsThenOne ==
    /\ [](run_pc = "done" => (Len(queue) >= 1 /\ IsOne(queue[Len(queue)])))
    /\ [](run_pc = "start" => queue = <<>>)
    /\ [](/\ Fractions = 1..Reported
          /\ \A j \in Fractions :
                LET f == BeforeFinal[j]
                IN  /\ f.num * Len(batch) = j * f.den
                    /\ 0 < f.num /\ f.num <= f.den
                    /\ j > 1 => BeforeFinal[j - 1].num * f.den < f.num * BeforeFinal[j - 1].den)
    /\ [][(run_pc # "finally" /\ queue' # queue /\ queue'[Len(queue')].tag = "float") =>
             /\ run_pc = "returned"
             /\ wf_outcome = "True"
             /\ Len(queue') = entry_idx]_vars
    /\ [][run_pc = "done" => queue' = queue]_vars

\* Both records of a batch went through: the queue holds 1/2, 2/2 and the
\* final 1.0.
C24_Witness ==
    /\ run_pc = "done"
    /\ Len(batch) = 2
    /\ wf_outcome = "True"
    /\ Len(queue) = 3
    /\ queue[1].tag = "float" /\ queue[1].num * 2 = queue[1].den
    /\ IsOne(queue[2])
    /\ IsOne(queue[3])

----------------------------------------------------------------------------
(* C25: two calls of convert_to_coordinate_format on the same rows return   *)
(* the same records, and the records of one batch that carry the same       *)
(* account number carry the same banka_kodu, whether or not the account is  *)
(* in the bank-code table. It fails for an account the table lacks: each    *)
(* lookup draws its own random code.                                        *)
C25_SameAccountSameBankCode ==
    /\ \A i, j \in 1..Len(conversions) : conversions[i] = conversions[j]
    /\ \A i \in 1..Len(conversions) :
          conversions[i].tag = "list" =>
              \A a, b \in 1..Len(conversions[i].items) :
                  conversions[i].items[a].hesap_no = conversions[i].items[b].hesap_no =>
                      conversions[i].items[a].banka_kodu = conversions[i].items[b].banka_kodu

====
